---- MODULE Spec2Model ----
(***************************************************************************)
(* Model of App_ImageToDesmos.py: the tracing pipeline                     *)
(* bitmap_to_desmos_beziers, the preview sampler draw_figure and the event *)
(* loop of main.  The Copy and Save handlers only read the '-OUT-' text    *)
(* and hand it to the clipboard or to a file; they are not modelled.       *)
(*                                                                         *)
(* Numbers.  A Python float is modelled as a decimal fixed-point number    *)
(* with Digits fractional digits: the integer n stands for n / Q, where    *)
(* Q = 10^Digits.  A division rounds to the nearest such number, so the    *)
(* model has rounding as floats have, and str() of a number is its exact   *)
(* decimal rendering.  The scale factor is kept as an exact fraction       *)
(* <<numerator, denominator>>.                                             *)
(*                                                                         *)
(* Strings.  A Python str is modelled as the sequence of its characters.   *)
(***************************************************************************)
EXTENDS Integers, Sequences, FiniteSets, TLC

VARIABLES
    disk,          \* the file system: image path -> decoded image, or None
    call,          \* arguments of the last call of bitmap_to_desmos_beziers
    ret,           \* what that call returned or raised
    event,         \* the event main handled last
    out,           \* text shown in the '-OUT-' Multiline
    preview_plot,  \* main's preview_plot: None (0) or the id of a canvas widget
    figures,       \* pyplot figures that are open: id -> the polylines plotted
    packed,        \* ids of the canvas widgets that are packed (visible)
    popups,        \* the popups shown while handling the last event
    running        \* the event loop has not ended

vars == <<disk, call, ret, event, out, preview_plot, figures, packed,
          popups, running>>

guiVars == <<event, out, preview_plot, figures, packed, popups, running>>

----------------------------------------------------------------------------
(* Bounds of the model *)

MaxSegs == 3
MaxWidth == 2
MaxHeight == 4
MaxMinLength == 2
Digits == 2
MaxFigures == 2

(* Constants of the program *)

DefaultThreshold == 128
Samples == 50

----------------------------------------------------------------------------
(* Numbers *)

RECURSIVE Pow10(_)
Pow10(k) == IF k = 0 THEN 1 ELSE 10 * Pow10(k - 1)

Q == Pow10(Digits)

Abs(n) == IF n < 0 THEN -n ELSE n

\* a / b rounded to the nearest integer (b > 0)
RoundDiv(a, b) ==
    IF a >= 0 THEN (2 * a + b) \div (2 * b) ELSE -((2 * (-a) + b) \div (2 * b))

\* the float of an integer
Float(n) == n * Q

\* exact fractions <<n, d>>, d > 0
RatAdd(a, b) == <<a[1] * b[2] + b[1] * a[2], a[2] * b[2]>>
RatHalf(a) == <<a[1], 2 * a[2]>>

RECURSIVE SeqMax(_)
SeqMax(s) ==
    IF Len(s) = 1 THEN s[1]
    ELSE LET m == SeqMax(Tail(s)) IN IF s[1] > m THEN s[1] ELSE m

----------------------------------------------------------------------------
(* Strings *)

DigitChars == <<"0", "1", "2", "3", "4", "5", "6", "7", "8", "9">>

RECURSIVE IntStr(_)
IntStr(n) ==
    IF n < 10 THEN <<DigitChars[n + 1]>>
    ELSE IntStr(n \div 10) \o <<DigitChars[(n % 10) + 1]>>

\* the k digits of f < 10^k, leading zeros kept
RECURSIVE PadStr(_, _)
PadStr(f, k) ==
    IF k = 0 THEN <<>>
    ELSE PadStr(f \div 10, k - 1) \o <<DigitChars[(f % 10) + 1]>>

\* the k digits of f < 10^k, trailing zeros dropped but for the first digit
RECURSIVE FracStr(_, _)
FracStr(f, k) ==
    IF k = 1 THEN <<DigitChars[f + 1]>>
    ELSE IF f % 10 = 0 THEN FracStr(f \div 10, k - 1)
    ELSE PadStr(f, k)

\* str(x) of a float x, as an f-string replacement field renders it
FloatStr(x) ==
    (IF x < 0 THEN <<"-">> ELSE <<>>)
        \o IntStr(Abs(x) \div Q) \o <<".">> \o FracStr(Abs(x) % Q, Digits)

RECURSIVE Join(_, _)
Join(sep, strs) ==
    IF strs = <<>> THEN <<>>
    ELSE IF Len(strs) = 1 THEN strs[1]
    ELSE strs[1] \o sep \o Join(sep, Tail(strs))

----------------------------------------------------------------------------
(* Images and the tracer *)

\* what cv2.imread returns for a path it cannot load
None == [loaded |-> FALSE]

Pt(x, y) == [x |-> x, y |-> y]

CornerSegment(c, end_point) ==
    [is_corner |-> TRUE, c |-> c, end_point |-> end_point]

BezierSegment(c1, c2, end_point) ==
    [is_corner |-> FALSE, c1 |-> c1, c2 |-> c2, end_point |-> end_point]

\* a closed curve: it starts where its last segment ends
Curve(segs) == [start_point |-> segs[Len(segs)].end_point, segs |-> segs]

\* a decoded image: w x h pixels, the shapes drawn with intensity ink on a
\* background of 255, and the paths that outline the shapes
Image(w, h, ink, paths) ==
    [loaded |-> TRUE, w |-> w, h |-> h, ink |-> ink, paths |-> paths]

imread(image_path) ==
    IF image_path \in DOMAIN disk THEN disk[image_path] ELSE None

\* potrace.Bitmap(gray < threshold).trace(): the shapes are foreground iff
\* their intensity is under the threshold, and no foreground gives no path
trace(gray, threshold) ==
    IF gray.ink < threshold THEN gray.paths ELSE <<>>

----------------------------------------------------------------------------
(* bitmap_to_desmos_beziers *)

\* the points one segment adds to xs, ys
SegPoints(start, seg) ==
    <<start>>
        \o (IF seg.is_corner THEN <<seg.c>> ELSE <<seg.c1, seg.c2>>)
        \o <<seg.end_point>>

RECURSIVE CurvePoints(_, _)
CurvePoints(segs, start) ==
    IF segs = <<>> THEN <<>>
    ELSE SegPoints(start, Head(segs))
             \o CurvePoints(Tail(segs), Head(segs).end_point)

RECURSIVE TracePoints(_)
TracePoints(paths) ==
    IF paths = <<>> THEN <<>>
    ELSE CurvePoints(Head(paths).segs, Head(paths).start_point)
             \o TracePoints(Tail(paths))

\* faulty variant: the sum of the two ratios is not halved
ScaleOfSum(scale_x, scale_y) ==
    LET s == RatAdd(scale_x, scale_y)
    IN  IF s[1] = 0 THEN <<1, 1>> ELSE s

\* (scale_x + scale_y) / 2.0 or 1.0
ScaleOf(scale_x, scale_y) ==
    LET s == RatHalf(RatAdd(scale_x, scale_y))
    IN  IF s[1] = 0 THEN <<1, 1>> ELSE s

\* a / scale, rounded to a float
FDiv(a, scale) == RoundDiv(a * scale[2] * Q, scale[1])

\* faulty variant: y is not flipped
locUnflipped(pt, scale, cx, cy) ==
    <<FDiv(pt.x, scale) - cx, FDiv(pt.y, scale) - cy>>

loc(pt, scale, cx, cy) ==
    <<FDiv(pt.x, scale) - cx, cy - FDiv(pt.y, scale)>>

\* p0, p1, p2, p3 of a segment
ControlPoints(start, seg) ==
    IF seg.is_corner
    THEN <<start, start, seg.c, seg.end_point>>
    ELSE <<start, seg.c1, seg.c2, seg.end_point>>

\* faulty variant: a chord of exactly min_length is too short as well
TooShortOrEqual(pts_pixel, min_length) ==
    LET dx == pts_pixel[4][1] - pts_pixel[1][1]
        dy == pts_pixel[4][2] - pts_pixel[1][2]
    IN  dx * dx + dy * dy <= Float(min_length) * Float(min_length)

\* np.hypot(x3 - x0, y3 - y0) < min_length, decided on the squares
TooShort(pts_pixel, min_length) ==
    LET dx == pts_pixel[4][1] - pts_pixel[1][1]
        dy == pts_pixel[4][2] - pts_pixel[1][2]
    IN  dx * dx + dy * dy < Float(min_length) * Float(min_length)

\* faulty variant: powers written ** as in Python
BernsteinPython(pts_pixel, k) ==
    <<"(", "1", "-", "t", ")", "*", "*", "3", "*">>
        \o FloatStr(pts_pixel[1][k])
        \o <<"+", "3", "*", "(", "1", "-", "t", ")", "*", "*", "2", "*", "t",
             "*">>
        \o FloatStr(pts_pixel[2][k])
        \o <<"+", "3", "*", "(", "1", "-", "t", ")", "*", "t", "*", "*", "2",
             "*">>
        \o FloatStr(pts_pixel[3][k])
        \o <<"+", "t", "*", "*", "3", "*">> \o FloatStr(pts_pixel[4][k])

\* one coordinate's polynomial: k = 1 for Bx, k = 2 for By
Bernstein(pts_pixel, k) ==
    <<"(", "1", "-", "t", ")", "^", "3", "*">> \o FloatStr(pts_pixel[1][k])
        \o <<"+", "3", "*", "(", "1", "-", "t", ")", "^", "2", "*", "t", "*">>
        \o FloatStr(pts_pixel[2][k])
        \o <<"+", "3", "*", "(", "1", "-", "t", ")", "*", "t", "^", "2", "*">>
        \o FloatStr(pts_pixel[3][k])
        \o <<"+", "t", "^", "3", "*">> \o FloatStr(pts_pixel[4][k])

\* r"\left\{0 \le t \le 1\right\}"
domain ==
    <<"\\", "l", "e", "f", "t", "\\", "{", "0", " ", "\\", "l", "e", " ",
      "t", " ", "\\", "l", "e", " ", "1", "\\", "r", "i", "g", "h", "t",
      "\\", "}">>

\* f"({Bx}, {By}) {domain}"
Expression(pts_pixel) ==
    <<"(">> \o Bernstein(pts_pixel, 1) \o <<",", " ">>
        \o Bernstein(pts_pixel, 2) \o <<")", " ">> \o domain

\* faulty variant: the new entries are put first
AcceptFirst(acc, pts_pixel) ==
    [desmos_segments |-> <<Expression(pts_pixel)>> \o acc.desmos_segments,
     preview_curves |-> <<pts_pixel>> \o acc.preview_curves]

\* an accepted segment: its preview entry and its expression are appended
Accept(acc, pts_pixel) ==
    [desmos_segments |-> Append(acc.desmos_segments, Expression(pts_pixel)),
     preview_curves |-> Append(acc.preview_curves, pts_pixel)]

\* faulty variant: a segment that is filtered out does not move the start
StartAfterSkipStays(start, seg) == start

\* the start of the next segment after a segment that was filtered out
StartAfterSkip(start, seg) == seg.end_point

\* the start of the next segment after a segment that was accepted
StartAfterAccept(start, seg) == seg.end_point

RECURSIVE SegmentLoop(_, _, _, _)
SegmentLoop(segs, start, env, acc) ==
    IF segs = <<>> THEN acc
    ELSE LET seg == Head(segs)
             p == ControlPoints(start, seg)
             pts_pixel ==
                 [i \in 1..4 |-> loc(p[i], env.scale, env.cx, env.cy)]
         IN  IF TooShort(pts_pixel, env.min_length)
             THEN SegmentLoop(Tail(segs), StartAfterSkip(start, seg), env, acc)
             ELSE SegmentLoop(Tail(segs), StartAfterAccept(start, seg), env,
                              Accept(acc, pts_pixel))

RECURSIVE CurveLoop(_, _, _)
CurveLoop(paths, env, acc) ==
    IF paths = <<>> THEN acc
    ELSE CurveLoop(Tail(paths), env,
                   SegmentLoop(Head(paths).segs, Head(paths).start_point,
                               env, acc))

\* a call that raised exc; traced: the tracer had been invoked
Raised(exc, traced) ==
    [status |-> exc, desmos_segments |-> <<>>, preview_curves |-> <<>>,
     scale |-> <<0, 1>>, traced |-> traced]

\* a call that returned
Returned(acc, scale) ==
    [status |-> "ok", desmos_segments |-> acc.desmos_segments,
     preview_curves |-> acc.preview_curves, scale |-> scale, traced |-> TRUE]

NoCall == Raised("none", FALSE)

\* the checks before the tracer is invoked
LoadFailed(gray) == gray = None

bitmap_to_desmos_beziers(image_path, threshold, min_length) ==
    LET gray == imread(image_path)
    IN  IF LoadFailed(gray) THEN Raised("FileNotFoundError", FALSE)
        ELSE
        LET h == gray.h
            w == gray.w
            cx == Float(w) \div 2
            cy == Float(h) \div 2
            paths == trace(gray, threshold)
            pts == TracePoints(paths)
            xs == [i \in 1..Len(pts) |-> pts[i].x]
            ys == [i \in 1..Len(pts) |-> pts[i].y]
        IN  \* max() of an empty list raises ValueError
            IF (w # 0 /\ xs = <<>>) \/ (h # 0 /\ ys = <<>>)
            THEN Raised("ValueError", TRUE)
            ELSE
            LET scale_x == IF w # 0 THEN <<SeqMax(xs), w>> ELSE <<1, 1>>
                scale_y == IF h # 0 THEN <<SeqMax(ys), h>> ELSE <<1, 1>>
                scale == ScaleOf(scale_x, scale_y)
                env == [scale |-> scale, cx |-> cx, cy |-> cy,
                        min_length |-> min_length]
            IN  Returned(CurveLoop(paths, env,
                                   [desmos_segments |-> <<>>,
                                    preview_curves |-> <<>>]),
                         scale)

----------------------------------------------------------------------------
(* The pipeline on its own: every image of a bounded family is traced *)

\* the segments a curve of the family is made of: a corner into (1, 0), a
\* smooth segment into (1, 2) and a corner into the origin that has its
\* corner point there too
Segments ==
    {CornerSegment(Pt(2, 1), Pt(1, 0)),
     BezierSegment(Pt(2, 0), Pt(0, 2), Pt(1, 2)),
     CornerSegment(Pt(0, 0), Pt(0, 0))}

\* the curves of a run of segments, each marked TRUE where a curve begins
RECURSIVE Curves(_, _, _)
Curves(marked, segs, acc) ==
    IF marked = <<>>
    THEN IF segs = <<>> THEN acc ELSE Append(acc, Curve(segs))
    ELSE IF Head(marked)[2] /\ segs # <<>>
    THEN Curves(Tail(marked), <<Head(marked)[1]>>, Append(acc, Curve(segs)))
    ELSE Curves(Tail(marked), Append(segs, Head(marked)[1]), acc)

\* every trace of at most MaxSegs segments
Traces ==
    {<<>>} \cup
    UNION {{Curves(m, <<>>, <<>>) :
               m \in {f \in [1..n -> Segments \X BOOLEAN] : f[1][2]}} :
           n \in 1..MaxSegs}

\* the tracer's points lie in the image
Inside(paths, w, h) ==
    LET pts == TracePoints(paths)
    IN  \A n \in 1..Len(pts) : pts[n].x <= w /\ pts[n].y <= h

\* the images of the family: up to MaxWidth by MaxHeight pixels, with nothing
\* drawn (every pixel 255) or with shapes of intensity 0
Images ==
    UNION {{Image(w, h, IF paths = <<>> THEN 255 ELSE 0, paths) :
               paths \in {t \in Traces : Inside(t, w, h)}} :
           w \in 1..MaxWidth, h \in 1..MaxHeight}

NoArgs == [image_path |-> "", threshold |-> 0, min_length |-> 0]

Args(image_path, threshold, min_length) ==
    [image_path |-> image_path, threshold |-> threshold,
     min_length |-> min_length]

GuiInit ==
    /\ event = "none"
    /\ out = <<>>
    /\ preview_plot = 0
    /\ figures = <<>>
    /\ packed = {}
    /\ popups = <<>>
    /\ running = TRUE

InitPipe ==
    /\ disk \in [{"image.png"} -> Images \cup {None}]
    /\ call = NoArgs
    /\ ret = NoCall
    /\ GuiInit

\* bitmap_to_desmos_beziers("image.png", min_length=m), threshold defaulted;
\* no state is shared between invocations, so a behaviour is one invocation
PipeCall ==
    \E m \in 0..MaxMinLength :
        /\ ret = NoCall
        /\ call' = Args("image.png", DefaultThreshold, m)
        /\ ret' = bitmap_to_desmos_beziers("image.png", DefaultThreshold, m)
        /\ UNCHANGED <<disk, guiVars>>

NextPipe == PipeCall

SpecPipe == InitPipe /\ [][NextPipe]_vars

----------------------------------------------------------------------------
(* draw_figure *)

\* faulty variant: the values stop short of 1
linspaceOpen(n) == [k \in 1..n |-> <<k - 1, n>>]

\* np.linspace(0, 1, n): n values of t, each a fraction <<numerator, denominator>>
linspace(n) == [k \in 1..n |-> <<k - 1, n - 1>>]

\* (1-t)**3*p0 + 3*(1-t)**2*t*p1 + 3*(1-t)*t**2*p2 + t**3*p3 for coordinate c
Cubic(pts, c, t) ==
    LET a == t[1]
        b == t[2] - t[1]
    IN  RoundDiv(b * b * b * pts[1][c] + 3 * b * b * a * pts[2][c]
                     + 3 * b * a * a * pts[3][c] + a * a * a * pts[4][c],
                 t[2] * t[2] * t[2])

\* the polylines draw_figure plots, one per curve
draw_figure(curves) ==
    LET t == linspace(Samples)
    IN  [i \in 1..Len(curves) |->
            [k \in 1..Samples |->
                <<Cubic(curves[i], 1, t[k]), Cubic(curves[i], 2, t[k])>>]]

----------------------------------------------------------------------------
(* main *)

\* the files the user can browse to
Disk ==
    LET square ==
            <<Curve(<<CornerSegment(Pt(1, 3), Pt(2, 3)),
                      CornerSegment(Pt(3, 3), Pt(3, 2)),
                      CornerSegment(Pt(3, 1), Pt(2, 1)),
                      CornerSegment(Pt(1, 1), Pt(1, 2))>>)>>
        wave ==
            <<Curve(<<BezierSegment(Pt(1, 0), Pt(2, 2), Pt(4, 1)),
                      BezierSegment(Pt(3, 2), Pt(1, 2), Pt(0, 1))>>),
              Curve(<<CornerSegment(Pt(2, 1), Pt(1, 1))>>)>>
    IN  [p \in {"missing.png", "uniform.png", "square.png", "wave.png"} |->
            CASE p = "missing.png" -> None
              [] p = "uniform.png" -> Image(10, 10, 255, <<>>)
              [] p = "square.png" -> Image(4, 4, 0, square)
              [] p = "wave.png" -> Image(4, 2, 0, wave)]

\* what the user can have in the '-FILE-' input: nothing, or a file
Paths == {""} \cup DOMAIN Disk

\* positions of the '-THR-' slider that are tried
Thresholds == {DefaultThreshold}

\* positions of the '-MIN-' slider that are tried
MinLengths == {0, MaxMinLength}

Init ==
    /\ disk = Disk
    /\ call = NoArgs
    /\ ret = NoCall
    /\ GuiInit

\* faulty variant: a failed Convert clears the text
ConvertOutputCleared(r, old) ==
    IF r.status = "ok" THEN Join(<<"\n">>, r.desmos_segments) ELSE <<>>

\* the '-OUT-' text after the Convert handler
ConvertOutput(r, old) ==
    IF r.status = "ok" THEN Join(<<"\n">>, r.desmos_segments) ELSE old

\* the packed canvas widgets after the Preview handler: the old one is
\* forgotten and the new one packed, unless the call raised
PreviewPacked(r, old_plot, new_plot) ==
    IF r.status = "ok" THEN (packed \ {old_plot}) \cup {new_plot} ELSE packed

\* the open figures after the Preview handler
PreviewFigures(r) ==
    IF r.status = "ok"
    THEN Append(figures, draw_figure(r.preview_curves))
    ELSE figures

Preview ==
    \E path \in Paths, thr \in Thresholds, mn \in MinLengths :
        /\ running
        /\ event' = "Preview"
        /\ IF path = ""
           THEN /\ popups' = <<"Select an image first!">>
                /\ call' = NoArgs
                /\ ret' = NoCall
                /\ UNCHANGED <<preview_plot, figures, packed>>
           ELSE LET r == bitmap_to_desmos_beziers(path, thr, mn)
                    new_plot == Len(figures) + 1
                IN  /\ r.status = "ok" => Len(figures) < MaxFigures
                    /\ call' = Args(path, thr, mn)
                    /\ ret' = r
                    /\ figures' = PreviewFigures(r)
                    /\ packed' = PreviewPacked(r, preview_plot, new_plot)
                    /\ preview_plot' =
                           IF r.status = "ok" THEN new_plot ELSE preview_plot
                    /\ popups' =
                           IF r.status = "ok" THEN <<>> ELSE <<r.status>>
        /\ UNCHANGED <<disk, out, running>>

Convert ==
    \E path \in Paths, thr \in Thresholds, mn \in MinLengths :
        /\ running
        /\ event' = "Convert"
        /\ IF path = ""
           THEN /\ popups' = <<"Select an image!">>
                /\ call' = NoArgs
                /\ ret' = NoCall
                /\ UNCHANGED out
           ELSE LET r == bitmap_to_desmos_beziers(path, thr, mn)
                IN  /\ call' = Args(path, thr, mn)
                    /\ ret' = r
                    /\ out' = ConvertOutput(r, out)
                    /\ popups' =
                           IF r.status = "ok" THEN <<>> ELSE <<r.status>>
        /\ UNCHANGED <<disk, preview_plot, figures, packed, running>>

Exit ==
    /\ running
    /\ event' = "Exit"
    /\ running' = FALSE
    /\ popups' = <<>>
    /\ call' = NoArgs
    /\ ret' = NoCall
    /\ UNCHANGED <<disk, out, preview_plot, figures, packed>>

Next == Preview \/ Convert \/ Exit

Spec == Init /\ [][Next]_vars

----------------------------------------------------------------------------
(* What the last call was given, and what the specification expects of it *)

\* the image the last call read, and the paths the tracer gave for it
Gray == imread(call.image_path)
TracedPaths == trace(Gray, call.threshold)

Cx == Float(Gray.w) \div 2
Cy == Float(Gray.h) \div 2

\* the positions <<path, segment>> of a trace, in the tracer's emission order
RECURSIVE EmissionOrder(_, _)
EmissionOrder(paths, i) ==
    IF i > Len(paths) THEN <<>>
    ELSE [j \in 1..Len(paths[i].segs) |-> <<i, j>>]
             \o EmissionOrder(paths, i + 1)

\* where the segment at position e starts: at the path's start_point if it is
\* the first of its path, else where the segment before it ends
StartOf(paths, e) ==
    IF e[2] = 1 THEN paths[e[1]].start_point
    ELSE paths[e[1]].segs[e[2] - 1].end_point

\* the raw control points of the segment at position e
RawControl(paths, e) ==
    LET seg == paths[e[1]].segs[e[2]]
        start == StartOf(paths, e)
    IN  IF seg.is_corner THEN <<start, start, seg.c, seg.end_point>>
        ELSE <<start, seg.c1, seg.c2, seg.end_point>>

\* the same, normalized with the scale of the last call
Normalized(paths, e) ==
    [k \in 1..4 |-> loc(RawControl(paths, e)[k], ret.scale, Cx, Cy)]

\* the square of the chord length of normalized control points
Chord2(p) ==
    (p[4][1] - p[1][1]) * (p[4][1] - p[1][1])
        + (p[4][2] - p[1][2]) * (p[4][2] - p[1][2])

MinLength2 == Float(call.min_length) * Float(call.min_length)

LongEnough(paths, e) == Chord2(Normalized(paths, e)) >= MinLength2

RECURSIVE Keep(_, _)
Keep(paths, order) ==
    IF order = <<>> THEN <<>>
    ELSE (IF LongEnough(paths, Head(order)) THEN <<Head(order)>> ELSE <<>>)
             \o Keep(paths, Tail(order))

\* the positions of the segments that pass the length filter, in order
Kept == Keep(TracedPaths, EmissionOrder(TracedPaths, 1))

\* the raw points of a trace, and the largest of their coordinates
RawPoints(paths) ==
    LET order == EmissionOrder(paths, 1)
    IN  {RawControl(paths, order[n])[k] : n \in 1..Len(order), k \in 1..4}

MaxX(paths) ==
    LET pts == RawPoints(paths)
    IN  CHOOSE m \in {p.x : p \in pts} : \A p \in pts : p.x <= m

MaxY(paths) ==
    LET pts == RawPoints(paths)
    IN  CHOOSE m \in {p.y : p \in pts} : \A p \in pts : p.y <= m

----------------------------------------------------------------------------
(* Reading an expression string back *)

DigitSet == {DigitChars[d] : d \in 1..10}

DigitValue(c) == CHOOSE d \in 0..9 : DigitChars[d + 1] = c

RECURSIVE DigitsValue(_)
DigitsValue(s) ==
    IF s = <<>> THEN 0
    ELSE 10 * DigitsValue(SubSeq(s, 1, Len(s) - 1)) + DigitValue(s[Len(s)])

IsDigits(s) == s # <<>> /\ \A i \in 1..Len(s) : s[i] \in DigitSet

\* the parts of w before and after its decimal point, its sign set aside;
\* none if it has not one point
Parts(w) ==
    LET u == IF w # <<>> /\ w[1] = "-" THEN Tail(w) ELSE w
        dots == {i \in 1..Len(u) : u[i] = "."}
    IN  IF Cardinality(dots) # 1 THEN <<>>
        ELSE LET d == CHOOSE i \in dots : TRUE
             IN  <<SubSeq(u, 1, d - 1), SubSeq(u, d + 1, Len(u))>>

\* w is a literal decimal number: an optional sign, digits, a point, digits
IsDecimal(w) ==
    LET parts == Parts(w)
    IN  /\ parts # <<>>
        /\ IsDigits(parts[1])
        /\ IsDigits(parts[2])
        /\ Len(parts[2]) <= Digits

\* the number a literal decimal denotes
DecimalValue(w) ==
    LET parts == Parts(w)
        v == DigitsValue(parts[1]) * Q
                 + DigitsValue(parts[2]) * Pow10(Digits - Len(parts[2]))
    IN  IF w[1] = "-" THEN -v ELSE v

\* the end of the longest run of sign, digit and point characters from i on
RECURSIVE NumberEnd(_, _)
NumberEnd(s, i) ==
    IF i <= Len(s) /\ s[i] \in DigitSet \cup {"-", "."}
    THEN NumberEnd(s, i + 1) ELSE i

NoMatch == [ok |-> FALSE, nums |-> <<>>]

\* s from i on against the form from its j-th part on, where a part is a run
\* of characters or, as <<"#">>, a literal decimal number: the numbers read,
\* if s is of that form
RECURSIVE Match(_, _, _, _, _)
Match(s, i, form, j, nums) ==
    IF j > Len(form)
    THEN IF i = Len(s) + 1 THEN [ok |-> TRUE, nums |-> nums] ELSE NoMatch
    ELSE IF form[j] = <<"#">>
    THEN LET e == NumberEnd(s, i)
             w == SubSeq(s, i, e - 1)
         IN  IF IsDecimal(w)
             THEN Match(s, e, form, j + 1, Append(nums, DecimalValue(w)))
             ELSE NoMatch
    ELSE IF SubSeq(s, i, i + Len(form[j]) - 1) = form[j]
    THEN Match(s, i + Len(form[j]), form, j + 1, nums)
    ELSE NoMatch

\* (1-t)^3*# + 3*(1-t)^2*t*# + 3*(1-t)*t^2*# + t^3*#, written without spaces
PolynomialForm ==
    <<<<"(", "1", "-", "t", ")", "^", "3", "*">>, <<"#">>,
      <<"+", "3", "*", "(", "1", "-", "t", ")", "^", "2", "*", "t", "*">>,
      <<"#">>,
      <<"+", "3", "*", "(", "1", "-", "t", ")", "*", "t", "^", "2", "*">>,
      <<"#">>,
      <<"+", "t", "^", "3", "*">>, <<"#">>>>

\* (Bx(t), By(t)) followed by one space and a domain clause
ExpressionForm(clause) ==
    <<<<"(">>>> \o PolynomialForm \o <<<<",", " ">>>> \o PolynomialForm
        \o <<<<")", " ">>, clause>>

\* {0 <= t <= 1}
PlainClause ==
    <<"{", "0", " ", "<", "=", " ", "t", " ", "<", "=", " ", "1", "}">>

\* \left\{0 \le t \le 1\right\}
LatexClause ==
    <<"\\", "l", "e", "f", "t", "\\", "{", "0", " ", "\\", "l", "e", " ",
      "t", " ", "\\", "l", "e", " ", "1", "\\", "r", "i", "g", "h", "t",
      "\\", "}">>

Read(expr, clause) == Match(expr, 1, ExpressionForm(clause), 1, <<>>)

\* the eight coefficients of the cubic of control points p: x's, then y's
Coefficients(p) ==
    <<p[1][1], p[2][1], p[3][1], p[4][1], p[1][2], p[2][2], p[3][2], p[4][2]>>

----------------------------------------------------------------------------
(* C1: an empty trace is no error: the call returns an empty expression    *)
(* list and an empty preview list, with scale 1.0.                         *)
C1_EmptyTraceReturnsEmpty ==
    (ret.status # "none" /\ Gray # None /\ TracedPaths = <<>>)
        => /\ ret.status = "ok"
           /\ ret.desmos_segments = <<>>
           /\ ret.preview_curves = <<>>
           /\ ret.scale = <<1, 1>>

(* C4: a segment is accepted iff its chord is at least min_length: the     *)
(* normalized control points of a segment are among the preview entries    *)
(* iff the distance of its normalized P0 and P3 is not under min_length,   *)
(* and there are as many expressions and previews as such segments.        *)
C4_AcceptedIffLongEnough ==
    ret.status = "ok" =>
        LET order == EmissionOrder(TracedPaths, 1)
        IN  /\ \A n \in 1..Len(order) :
                   (\E i \in 1..Len(ret.preview_curves) :
                        ret.preview_curves[i] = Normalized(TracedPaths, order[n]))
                       <=> LongEnough(TracedPaths, order[n])
            /\ Len(ret.preview_curves) = Len(Kept)
            /\ Len(ret.desmos_segments) = Len(Kept)

\* a segment whose chord is exactly min_length is accepted, another rejected
C4_Witness ==
    /\ ret.status = "ok"
    /\ call.min_length > 0
    /\ LET order == EmissionOrder(TracedPaths, 1)
       IN  /\ \E n \in 1..Len(order) :
                  /\ Chord2(Normalized(TracedPaths, order[n])) = MinLength2
                  /\ \E i \in 1..Len(ret.preview_curves) :
                         ret.preview_curves[i] = Normalized(TracedPaths, order[n])
           /\ \E n \in 1..Len(order) : ~LongEnough(TracedPaths, order[n])

(* C5: one expression and one preview entry per accepted segment, in the   *)
(* tracer's emission order; the i-th preview entry holds the control       *)
(* points whose coordinates the i-th expression has as coefficients.       *)
C5_OnePerAcceptedInOrder ==
    ret.status = "ok" =>
        /\ Len(ret.desmos_segments) = Len(Kept)
        /\ Len(ret.preview_curves) = Len(Kept)
        /\ \A i \in 1..Len(Kept) :
               LET read == Read(ret.desmos_segments[i], LatexClause)
               IN  /\ ret.preview_curves[i] = Normalized(TracedPaths, Kept[i])
                   /\ read.ok
                   /\ read.nums = Coefficients(ret.preview_curves[i])

\* two paths, with different accepted segments of the first and the second
C5_Witness ==
    /\ ret.status = "ok"
    /\ Len(TracedPaths) = 2
    /\ Len(Kept) >= 2
    /\ Kept[1][1] # Kept[Len(Kept)][1]
    /\ ret.preview_curves[1] # ret.preview_curves[Len(Kept)]

(* C6: the scale of a run that normalizes points is strictly positive: it  *)
(* is ((max(x)/w) + (max(y)/h)) / 2 when that is not zero and 1.0 when it  *)
(* is, and every point of every accepted segment is normalized with it.    *)
C6_ScalePositiveAndShared ==
    ret.status = "ok" =>
        LET w == Gray.w
            h == Gray.h
            sum == MaxX(TracedPaths) * h + MaxY(TracedPaths) * w
        IN  /\ ret.scale[1] > 0
            /\ ret.scale[2] > 0
            /\ IF sum = 0 THEN ret.scale[1] = ret.scale[2]
               ELSE ret.scale[1] * (2 * w * h) = ret.scale[2] * sum
            /\ \A i \in 1..Len(ret.preview_curves) : \A k \in 1..4 :
                   LET raw == RawControl(TracedPaths, Kept[i])[k]
                   IN  ret.preview_curves[i][k] =
                           <<RoundDiv(raw.x * ret.scale[2] * Q, ret.scale[1])
                                 - Cx,
                             Cy - RoundDiv(raw.y * ret.scale[2] * Q,
                                           ret.scale[1])>>

\* the raw extents are zero, the scale is 1.0 and a segment is emitted
C6_Witness ==
    /\ ret.status = "ok"
    /\ MaxX(TracedPaths) = 0
    /\ MaxY(TracedPaths) = 0
    /\ ret.scale = <<1, 1>>
    /\ ret.preview_curves # <<>>

(* C9 as claimed, for a trace whose raw extents are not zero: an emitted   *)
(* point with raw y = 0 has a strictly positive normalized y, and one      *)
(* whose raw y is the largest raw y of the trace a strictly negative one.  *)
C9_BottomIsNegative ==
    (ret.status = "ok" /\ MaxX(TracedPaths) > 0 /\ MaxY(TracedPaths) > 0) =>
        LET my == MaxY(TracedPaths)
        IN  \A i \in 1..Len(ret.preview_curves) : \A k \in 1..4 :
                LET raw == RawControl(TracedPaths, Kept[i])[k]
                    y == ret.preview_curves[i][k][2]
                IN  /\ raw.y = 0 => y > 0
                    /\ raw.y = my => y < 0

(* C9 as amended: an emitted point with raw y = 0 has a strictly positive  *)
(* normalized y; one whose raw y is the largest raw y of the trace has a   *)
(* strictly negative normalized y if 3 * max(y)/h > max(x)/w and a         *)
(* strictly positive one if 3 * max(y)/h < max(x)/w.                       *)
C9_Orientation ==
    ret.status = "ok" =>
        LET mx == MaxX(TracedPaths)
            my == MaxY(TracedPaths)
        IN  \A i \in 1..Len(ret.preview_curves) : \A k \in 1..4 :
                LET raw == RawControl(TracedPaths, Kept[i])[k]
                    y == ret.preview_curves[i][k][2]
                IN  /\ raw.y = 0 => y > 0
                    /\ (raw.y = my /\ 3 * my * Gray.w > mx * Gray.h) => y < 0
                    /\ (raw.y = my /\ 3 * my * Gray.w < mx * Gray.h) => y > 0

\* an emitted point at the largest raw y, which is not zero, has a positive
\* normalized y, and another one at the top has one too
C9_Witness ==
    /\ ret.status = "ok"
    /\ MaxY(TracedPaths) > 0
    /\ \E i \in 1..Len(ret.preview_curves) : \E k \in 1..4 :
           /\ RawControl(TracedPaths, Kept[i])[k].y = MaxY(TracedPaths)
           /\ ret.preview_curves[i][k][2] > 0
    /\ \E i \in 1..Len(ret.preview_curves) : \E k \in 1..4 :
           /\ RawControl(TracedPaths, Kept[i])[k].y = 0
           /\ ret.preview_curves[i][k][2] > 0

(* C10: the control points of an emitted segment are (start, start,        *)
(* corner point, end) for a corner and (start, control1, control2, end)    *)
(* for a smooth segment, where start is the path's start_point for the     *)
(* first segment of a path and else the end point of the segment before    *)
(* it in the path, whether that one was accepted or rejected.              *)
C10_StartIsPredecessorEnd ==
    ret.status = "ok" =>
        \A i \in 1..Len(ret.preview_curves) :
            LET e == Kept[i]
                path == TracedPaths[e[1]]
                seg == path.segs[e[2]]
                start == IF e[2] = 1 THEN path.start_point
                         ELSE path.segs[e[2] - 1].end_point
                p == ret.preview_curves[i]
            IN  /\ p[1] = loc(start, ret.scale, Cx, Cy)
                /\ p[2] = IF seg.is_corner THEN p[1]
                          ELSE loc(seg.c1, ret.scale, Cx, Cy)
                /\ p[3] = loc(IF seg.is_corner THEN seg.c ELSE seg.c2,
                              ret.scale, Cx, Cy)
                /\ p[4] = loc(seg.end_point, ret.scale, Cx, Cy)

\* an accepted segment follows a rejected one that did not end where it began
C10_Witness ==
    /\ ret.status = "ok"
    /\ \E i \in 1..Len(Kept) :
           /\ Kept[i][2] > 1
           /\ ~LongEnough(TracedPaths, <<Kept[i][1], Kept[i][2] - 1>>)
           /\ StartOf(TracedPaths, <<Kept[i][1], Kept[i][2] - 1>>)
                  # StartOf(TracedPaths, Kept[i])

----------------------------------------------------------------------------
(* The event loop *)

(* C2: at most one rendering resource (figure with its canvas widget) is   *)
(* live, however many Preview actions there were.                          *)
C2_AtMostOneLiveFigure == Len(figures) <= 1

(* C3: a Convert or Preview of a path that cannot be loaded raises         *)
(* FileNotFoundError before the tracer is invoked and returns no segment;  *)
(* one error popup is shown, and the output text, the preview, the figures *)
(* and the packed widgets are as they were.                                *)
C3_LoadFailureChangesNothing ==
    [][(/\ event' \in {"Preview", "Convert"}
        /\ call'.image_path # ""
        /\ imread(call'.image_path) = None)
           => /\ ret'.status = "FileNotFoundError"
              /\ ~ret'.traced
              /\ ret'.desmos_segments = <<>>
              /\ ret'.preview_curves = <<>>
              /\ Len(popups') = 1
              /\ out' = out
              /\ preview_plot' = preview_plot
              /\ figures' = figures
              /\ packed' = packed]_vars

\* a Convert failed to load its image when there were a text and a preview
C3_Witness ==
    /\ event = "Convert"
    /\ ret.status = "FileNotFoundError"
    /\ Len(popups) = 1
    /\ out # <<>>
    /\ preview_plot # 0

\* where the i-th of the strings begins in their join by one character
RECURSIVE LineStart(_, _)
LineStart(strs, i) ==
    IF i = 1 THEN 1 ELSE LineStart(strs, i - 1) + Len(strs[i - 1]) + 1

\* text is the strings joined by newlines
IsJoinByNewline(text, strs) ==
    IF strs = <<>> THEN text = <<>>
    ELSE /\ Len(text) = LineStart(strs, Len(strs) + 1) - 2
         /\ \A i \in 1..Len(strs) :
                LET a == LineStart(strs, i)
                IN  /\ SubSeq(text, a, a + Len(strs[i]) - 1) = strs[i]
                    /\ i < Len(strs) => text[a + Len(strs[i])] = "\n"

CubicValue(c, n, a, b) ==
    RoundDiv((b - a) * (b - a) * (b - a) * c[n + 1]
                 + 3 * (b - a) * (b - a) * a * c[n + 2]
                 + 3 * (b - a) * a * a * c[n + 3]
                 + a * a * a * c[n + 4],
             b * b * b)

\* the point at t = a / b of the expression with the eight coefficients c
PointAt(c, a, b) == <<CubicValue(c, 0, a, b), CubicValue(c, 4, a, b)>>

(* C8: the expression of an accepted segment has the value P0 at t = 0 and *)
(* P3 at t = 1, and the preview of the segment is the values of that       *)
(* expression at 50 values of t, evenly spaced from 0 to 1 inclusive.      *)
C8_ExpressionAndPreviewAgree ==
    (event = "Preview" /\ ret.status = "ok") =>
        LET lines == figures[preview_plot]
        IN  /\ Len(lines) = Len(ret.desmos_segments)
            /\ Len(lines) = Len(ret.preview_curves)
            /\ \A i \in 1..Len(lines) :
                   LET read == Read(ret.desmos_segments[i], LatexClause)
                       p == ret.preview_curves[i]
                   IN  /\ read.ok
                       /\ PointAt(read.nums, 0, 1) = p[1]
                       /\ PointAt(read.nums, 1, 1) = p[4]
                       /\ Len(lines[i]) = 50
                       /\ lines[i][1] = p[1]
                       /\ lines[i][50] = p[4]
                       /\ \A k \in 1..50 :
                              lines[i][k] = PointAt(read.nums, k - 1, 49)

\* a Preview drew a smooth segment that does not end where it starts
C8_Witness ==
    /\ event = "Preview"
    /\ ret.status = "ok"
    /\ \E i \in 1..Len(ret.preview_curves) :
           /\ ret.preview_curves[i][1] # ret.preview_curves[i][4]
           /\ ret.preview_curves[i][1] # ret.preview_curves[i][2]
           /\ Len(figures[preview_plot][i]) = 50

====
